---- MODULE Spec2Model ----
(***************************************************************************)
(* Model of src/server.js: the Socket.IO presence registry                 *)
(* (connectedUsers), the channel rooms, and the event handlers registered  *)
(* in io.on('connection').  Every handler runs to completion before the    *)
(* next event is handled (single-threaded event loop), so each handler is  *)
(* one action.                                                             *)
(*                                                                         *)
(* JavaScript values are records [type, val]: val is the text String(x)    *)
(* yields, type is typeof x.  Socket ids are plain strings.                *)
(***************************************************************************)
EXTENDS Naturals, Sequences, FiniteSets, TLC

\* ---------------------------------------------------------------- bounds
MaxConns == 3

\* ------------------------------------------------------- JavaScript values
Str(s) == [type |-> "string", val |-> s]
Num(s) == [type |-> "number", val |-> s]
Undefined == [type |-> "undefined", val |-> "undefined"]

\* JavaScript truthiness, as used by `if (x)` and `x || y`.
Truthy(v) ==
    CASE v.type = "undefined" -> FALSE
      [] v.type = "string" -> v.val # ""
      [] v.type = "number" -> v.val # "0"
      [] OTHER -> TRUE

\* Sockets are named in the order in which they connect; ids are never reused.
SocketIds == <<"s1", "s2", "s3", "s4", "s5">>
Conns == {SocketIds[i] : i \in 1..MaxConns}

\* Values the clients send.
UserA == Str("A")
UserB == Str("B")
Users == {UserA, UserB}
HandshakeIds == Users \cup {Undefined}
ChannelVals == {Str("1"), Num("1"), Str("c2")}
ContentVals == {Str("hi"), Num("42")}
SignalEvents == {"callUser", "answerCall", "rejectCall", "endCall", "sendIceCandidate"}

\* --------------------------------------------------------------- state
VARIABLES
    status,          \* socket -> "new" | "live" | "dead"
    userId,          \* socket -> the closure constant userId (handshake.auth.userId)
    connectedUsers,  \* the Map user id -> socket id
    rooms,           \* socket -> set of room names the socket is in
    sent,            \* socket -> events it received from the handler that ran last
    last,            \* the inbound event handled last
    crashed,         \* an exception escaped a handler
    identified,      \* history: socket -> user ids it identified as
    specRegistry,    \* history: the registry of setPresence / clearIfCurrent
    specMembers      \* history: socket -> rooms whose last join/leave was a join

vars == <<status, userId, connectedUsers, rooms, sent, last, crashed,
          identified, specRegistry, specMembers>>

\* ------------------------------------------------------------ Map helpers
MapGet(m, k) == IF k \in DOMAIN m THEN Str(m[k]) ELSE Undefined
MapSet(m, k, v) == [x \in (DOMAIN m) \cup {k} |-> IF x = k THEN v ELSE m[x]]
MapDelete(m, k) == [x \in (DOMAIN m) \ {k} |-> m[x]]
EmptyMap == [x \in {} |-> "s1"]

\* ------------------------------------------------------- transport helpers
Live == {c \in Conns : status[c] = "live"}

\* `channel:${channelId}`
RoomName(channelId) == "channel:" \o channelId.val
RoomNames == {RoomName(ch) : ch \in ChannelVals}

\* socket.to(room): the live sockets in the room, the sender excepted.
SocketTo_NoExclude(c, room) == {d \in Live : room \in rooms[d]}
SocketTo(c, room) == {d \in Live : room \in rooms[d]} \ {c}

\* io.to(socketId): every socket is alone in the room named by its own id.
IoTo(id) == {d \in Live : Str(d) = id}

NoneSent == [d \in Conns |-> <<>>]
\* emit(payload) to a set of sockets: each receives it once.
Emit(targets, payload) ==
    [d \in Conns |-> IF d \in targets THEN <<payload>> ELSE <<>>]

\* An outbound payload; fields a given event does not carry are Undefined.
Payload(ev, uid, from, to, channelId, content) ==
    [event |-> ev, userId |-> uid, from |-> from, to |-> to,
     channelId |-> channelId, content |-> content]

Inbound(ev, c, hasData, uid, to, channelId, content) ==
    [ev |-> ev, conn |-> c, hasData |-> hasData, userId |-> uid, to |-> to,
     channelId |-> channelId, content |-> content]

\* userId || socket.id
SenderId(c) == IF Truthy(userId[c]) THEN userId[c] ELSE Str(c)

\* ---------------------------------------------------------------- Init
Init ==
    /\ status = [c \in Conns |-> "new"]
    /\ userId = [c \in Conns |-> Undefined]
    /\ connectedUsers = EmptyMap
    /\ rooms = [c \in Conns |-> {}]
    /\ sent = NoneSent
    /\ last = Inbound("init", "s1", FALSE, Undefined, Undefined, Undefined, Undefined)
    /\ crashed = FALSE
    /\ identified = [c \in Conns |-> {}]
    /\ specRegistry = EmptyMap
    /\ specMembers = [c \in Conns |-> {}]

\* A handler of socket c can run.
Running(c) == ~crashed /\ status[c] = "live"

\* An exception escapes the handler: nothing catches it, the process ends and
\* with it every connection, the registry and the rooms.
Crash(inbound) ==
    /\ crashed' = TRUE
    /\ status' = [d \in Conns |-> "dead"]
    /\ userId' = [d \in Conns |-> Undefined]
    /\ connectedUsers' = EmptyMap
    /\ rooms' = [d \in Conns |-> {}]
    /\ sent' = NoneSent
    /\ last' = inbound
    /\ identified' = [d \in Conns |-> {}]
    /\ specRegistry' = EmptyMap
    /\ specMembers' = [d \in Conns |-> {}]

\* ------------------------------------------------------------- handlers
\* io.on('connection'): the i-th socket connects with handshake.auth.userId = hs.
Connection_Replay(i, hs) ==
    LET c == SocketIds[i] IN
    /\ ~crashed
    /\ status[c] = "new"
    /\ \A j \in 1..(i-1) : status[SocketIds[j]] # "new"
    /\ status' = [status EXCEPT ![c] = "live"]
    /\ userId' = [userId EXCEPT ![c] = hs]
    /\ connectedUsers' = IF Truthy(hs) THEN MapSet(connectedUsers, hs, c)
                                       ELSE connectedUsers
    /\ sent' = IF Truthy(hs)
               THEN Emit({c}, Payload("callOffer", Undefined, Undefined, hs, Undefined, Undefined))
               ELSE NoneSent
    /\ last' = Inbound("connection", c, TRUE, hs, Undefined, Undefined, Undefined)
    /\ identified' = IF Truthy(hs) THEN [identified EXCEPT ![c] = {hs}] ELSE identified
    /\ specRegistry' = IF Truthy(hs) THEN MapSet(specRegistry, hs, c) ELSE specRegistry
    /\ UNCHANGED <<rooms, crashed, specMembers>>
Connection_KeepFirst(i, hs) ==
    LET c == SocketIds[i] IN
    /\ ~crashed
    /\ status[c] = "new"
    /\ \A j \in 1..(i-1) : status[SocketIds[j]] # "new"
    /\ status' = [status EXCEPT ![c] = "live"]
    /\ userId' = [userId EXCEPT ![c] = hs]
    /\ connectedUsers' = IF Truthy(hs) /\ hs \notin DOMAIN connectedUsers
                         THEN MapSet(connectedUsers, hs, c)
                         ELSE connectedUsers
    /\ sent' = NoneSent
    /\ last' = Inbound("connection", c, TRUE, hs, Undefined, Undefined, Undefined)
    /\ identified' = IF Truthy(hs) THEN [identified EXCEPT ![c] = {hs}] ELSE identified
    /\ specRegistry' = IF Truthy(hs) THEN MapSet(specRegistry, hs, c) ELSE specRegistry
    /\ UNCHANGED <<rooms, crashed, specMembers>>
Connection(i, hs) ==
    LET c == SocketIds[i] IN
    /\ ~crashed
    /\ status[c] = "new"
    /\ \A j \in 1..(i-1) : status[SocketIds[j]] # "new"
    /\ status' = [status EXCEPT ![c] = "live"]
    /\ userId' = [userId EXCEPT ![c] = hs]
    /\ connectedUsers' = IF Truthy(hs) THEN MapSet(connectedUsers, hs, c)
                                       ELSE connectedUsers
    /\ sent' = NoneSent
    /\ last' = Inbound("connection", c, TRUE, hs, Undefined, Undefined, Undefined)
    /\ identified' = IF Truthy(hs) THEN [identified EXCEPT ![c] = {hs}] ELSE identified
    /\ specRegistry' = IF Truthy(hs) THEN MapSet(specRegistry, hs, c) ELSE specRegistry
    /\ UNCHANGED <<rooms, crashed, specMembers>>

\* socket.on('authenticate', (data) => ...) with data = {userId: uid}.
Authenticate_Rebind(c, uid) ==
    /\ Running(c)
    /\ connectedUsers' =
           IF Truthy(uid)
           THEN MapSet([u \in {x \in DOMAIN connectedUsers : connectedUsers[x] # c}
                            |-> connectedUsers[u]], uid, c)
           ELSE connectedUsers
    /\ sent' = NoneSent
    /\ last' = Inbound("authenticate", c, TRUE, uid, Undefined, Undefined, Undefined)
    /\ identified' = IF Truthy(uid) THEN [identified EXCEPT ![c] = @ \cup {uid}]
                                    ELSE identified
    /\ specRegistry' = IF Truthy(uid) THEN MapSet(specRegistry, uid, c) ELSE specRegistry
    /\ UNCHANGED <<status, userId, rooms, crashed, specMembers>>
Authenticate(c, uid) ==
    /\ Running(c)
    /\ connectedUsers' = IF Truthy(uid) THEN MapSet(connectedUsers, uid, c)
                                        ELSE connectedUsers
    /\ sent' = NoneSent
    /\ last' = Inbound("authenticate", c, TRUE, uid, Undefined, Undefined, Undefined)
    /\ identified' = IF Truthy(uid) THEN [identified EXCEPT ![c] = @ \cup {uid}]
                                    ELSE identified
    /\ specRegistry' = IF Truthy(uid) THEN MapSet(specRegistry, uid, c) ELSE specRegistry
    /\ UNCHANGED <<status, userId, rooms, crashed, specMembers>>

\* authenticate with no payload: data.userId throws outside any try.
AuthenticateNoData(c) ==
    /\ Running(c)
    /\ Crash(Inbound("authenticate", c, FALSE, Undefined, Undefined, Undefined, Undefined))

\* socket.on('joinChannel', (channelId) => ...): socket.join(`channel:${channelId}`)
JoinChannel_Replace(c, channelId) ==
    /\ Running(c)
    /\ rooms' = [rooms EXCEPT ![c] = {RoomName(channelId)}]
    /\ sent' = NoneSent
    /\ last' = Inbound("joinChannel", c, TRUE, Undefined, Undefined, channelId, Undefined)
    /\ specMembers' = [specMembers EXCEPT ![c] = @ \cup {RoomName(channelId)}]
    /\ UNCHANGED <<status, userId, connectedUsers, crashed, identified, specRegistry>>
JoinChannel(c, channelId) ==
    /\ Running(c)
    /\ rooms' = [rooms EXCEPT ![c] = @ \cup {RoomName(channelId)}]
    /\ sent' = NoneSent
    /\ last' = Inbound("joinChannel", c, TRUE, Undefined, Undefined, channelId, Undefined)
    /\ specMembers' = [specMembers EXCEPT ![c] = @ \cup {RoomName(channelId)}]
    /\ UNCHANGED <<status, userId, connectedUsers, crashed, identified, specRegistry>>

\* socket.on('leaveChannel', (channelId) => ...): socket.leave(`channel:${channelId}`)
LeaveChannel_Keep(c, channelId) ==
    /\ Running(c)
    /\ rooms' = rooms
    /\ sent' = NoneSent
    /\ last' = Inbound("leaveChannel", c, TRUE, Undefined, Undefined, channelId, Undefined)
    /\ specMembers' = [specMembers EXCEPT ![c] = @ \ {RoomName(channelId)}]
    /\ UNCHANGED <<status, userId, connectedUsers, crashed, identified, specRegistry>>
LeaveChannel(c, channelId) ==
    /\ Running(c)
    /\ rooms' = [rooms EXCEPT ![c] = @ \ {RoomName(channelId)}]
    /\ sent' = NoneSent
    /\ last' = Inbound("leaveChannel", c, TRUE, Undefined, Undefined, channelId, Undefined)
    /\ specMembers' = [specMembers EXCEPT ![c] = @ \ {RoomName(channelId)}]
    /\ UNCHANGED <<status, userId, connectedUsers, crashed, identified, specRegistry>>

\* content.substring(0, 20) and content.length throw unless content is a string.
ContentThrows_Never(content) == FALSE
ContentThrows(content) == content.type # "string"

\* What sendMessage emits: nothing when the try block throws (the catch logs it).
MessageEmission(c, channelId, content) ==
    IF ContentThrows(content)
    THEN NoneSent
    ELSE Emit(SocketTo(c, RoomName(channelId)),
              Payload("newMessage", SenderId(c), Undefined, Undefined, channelId, content))

\* socket.on('sendMessage', ({ channelId, content }) => ...)
SendMessage(c, channelId, content) ==
    /\ Running(c)
    /\ sent' = MessageEmission(c, channelId, content)
    /\ last' = Inbound("sendMessage", c, TRUE, Undefined, Undefined, channelId, content)
    /\ UNCHANGED <<status, userId, connectedUsers, rooms, crashed,
                   identified, specRegistry, specMembers>>

\* socket.on('typing' | 'stopTyping', ({ channelId }) => ...)
Typing(c, ev, channelId) ==
    /\ Running(c)
    /\ sent' = Emit(SocketTo(c, RoomName(channelId)),
                    Payload(ev, SenderId(c), Undefined, Undefined, channelId, Undefined))
    /\ last' = Inbound(ev, c, TRUE, Undefined, Undefined, channelId, Undefined)
    /\ UNCHANGED <<status, userId, connectedUsers, rooms, crashed,
                   identified, specRegistry, specMembers>>

\* sendMessage, typing or stopTyping with no payload: destructuring the
\* parameter throws before the handler body (and its try) is entered.
BroadcastNoData(c, ev) ==
    /\ Running(c)
    /\ Crash(Inbound(ev, c, FALSE, Undefined, Undefined, Undefined, Undefined))

\* The outbound event name of each signaling event.
OutEvent(ev) ==
    CASE ev = "callUser" -> "callOffer"
      [] ev = "answerCall" -> "callAnswer"
      [] ev = "rejectCall" -> "callRejected"
      [] ev = "endCall" -> "callEnded"
      [] ev = "sendIceCandidate" -> "iceCandidate"

\* const receiverSocketId = connectedUsers.get(data.to);
\* if (receiverSocketId) io.to(receiverSocketId).emit(...)
SignalTargets_Everyone(to) ==
    LET receiverSocketId == MapGet(connectedUsers, to) IN
    IF Truthy(receiverSocketId) THEN IoTo(receiverSocketId) ELSE Live
SignalTargets(to) ==
    LET receiverSocketId == MapGet(connectedUsers, to) IN
    IF Truthy(receiverSocketId) THEN IoTo(receiverSocketId) ELSE {}

\* socket.on(ev, (data) => ...) for the five signaling events, data = {to, ...}.
\* signal, reason, candidate, channelId and callType are copied from data
\* unread, and caller.id is the same expression as from.
Signal(c, ev, to) ==
    /\ Running(c)
    /\ sent' = Emit(SignalTargets(to),
                    Payload(OutEvent(ev), Undefined, userId[c], to, Undefined, Undefined))
    /\ last' = Inbound(ev, c, TRUE, Undefined, to, Undefined, Undefined)
    /\ UNCHANGED <<status, userId, connectedUsers, rooms, crashed,
                   identified, specRegistry, specMembers>>

\* A signaling event with no payload: data.to throws outside any try.
SignalNoData(c, ev) ==
    /\ Running(c)
    /\ Crash(Inbound(ev, c, FALSE, Undefined, Undefined, Undefined, Undefined))

\* if (userId && connectedUsers.get(userId) === socket.id) connectedUsers.delete(userId)
RegistryAfterDisconnect_Always(c) ==
    IF Truthy(userId[c]) THEN MapDelete(connectedUsers, userId[c]) ELSE connectedUsers
RegistryAfterDisconnect_Clear(c) == EmptyMap
RegistryAfterDisconnect(c) ==
    IF Truthy(userId[c]) /\ MapGet(connectedUsers, userId[c]) = Str(c)
    THEN MapDelete(connectedUsers, userId[c])
    ELSE connectedUsers

\* clearIfCurrent for every identity the connection holds the entry of.
SpecRegistryAfterDisconnect(c) ==
    [u \in {x \in DOMAIN specRegistry : specRegistry[x] # c} |-> specRegistry[u]]

\* socket.on('disconnect'): the transport has taken the socket out of its rooms.
Disconnect_Notify(c) ==
    /\ Running(c)
    /\ status' = [status EXCEPT ![c] = "dead"]
    /\ rooms' = [rooms EXCEPT ![c] = {}]
    /\ connectedUsers' = RegistryAfterDisconnect(c)
    /\ sent' = Emit(Live \ {c},
                    Payload("userOffline", userId[c], Undefined, Undefined, Undefined, Undefined))
    /\ last' = Inbound("disconnect", c, FALSE, Undefined, Undefined, Undefined, Undefined)
    /\ identified' = [identified EXCEPT ![c] = {}]
    /\ specRegistry' = SpecRegistryAfterDisconnect(c)
    /\ specMembers' = [specMembers EXCEPT ![c] = {}]
    /\ UNCHANGED <<userId, crashed>>
Disconnect(c) ==
    /\ Running(c)
    /\ status' = [status EXCEPT ![c] = "dead"]
    /\ rooms' = [rooms EXCEPT ![c] = {}]
    /\ connectedUsers' = RegistryAfterDisconnect(c)
    /\ sent' = NoneSent
    /\ last' = Inbound("disconnect", c, FALSE, Undefined, Undefined, Undefined, Undefined)
    /\ identified' = [identified EXCEPT ![c] = {}]
    /\ specRegistry' = SpecRegistryAfterDisconnect(c)
    /\ specMembers' = [specMembers EXCEPT ![c] = {}]
    /\ UNCHANGED <<userId, crashed>>

\* The whole program: every handler of every socket.
Next ==
    \/ \E i \in 1..MaxConns, hs \in HandshakeIds : Connection(i, hs)
    \/ \E c \in Conns, uid \in HandshakeIds : Authenticate(c, uid)
    \/ \E c \in Conns : AuthenticateNoData(c)
    \/ \E c \in Conns, ch \in ChannelVals : JoinChannel(c, ch)
    \/ \E c \in Conns, ch \in ChannelVals : LeaveChannel(c, ch)
    \/ \E c \in Conns, ch \in ChannelVals, content \in ContentVals : SendMessage(c, ch, content)
    \/ \E c \in Conns, ev \in {"typing", "stopTyping"}, ch \in ChannelVals : Typing(c, ev, ch)
    \/ \E c \in Conns, ev \in {"sendMessage", "typing", "stopTyping"} : BroadcastNoData(c, ev)
    \/ \E c \in Conns, ev \in SignalEvents, to \in Users : Signal(c, ev, to)
    \/ \E c \in Conns, ev \in SignalEvents : SignalNoData(c, ev)
    \/ \E c \in Conns : Disconnect(c)

Spec == Init /\ [][Next]_vars

\* The presence and signaling handlers.  They neither read nor write the
\* rooms, and the channel handlers neither read nor write connectedUsers.
NextPresence ==
    \/ \E i \in 1..MaxConns, hs \in HandshakeIds : Connection(i, hs)
    \/ \E c \in Conns, uid \in HandshakeIds : Authenticate(c, uid)
    \/ \E c \in Conns : AuthenticateNoData(c)
    \/ \E c \in Conns, ev \in SignalEvents, to \in Users : Signal(c, ev, to)
    \/ \E c \in Conns, ev \in SignalEvents : SignalNoData(c, ev)
    \/ \E c \in Conns : Disconnect(c)
SpecPresence == Init /\ [][NextPresence]_vars

\* The channel handlers, with the connection lifecycle.
NextChannels ==
    \/ \E i \in 1..MaxConns, hs \in HandshakeIds : Connection(i, hs)
    \/ \E c \in Conns, ch \in ChannelVals : JoinChannel(c, ch)
    \/ \E c \in Conns, ch \in ChannelVals : LeaveChannel(c, ch)
    \/ \E c \in Conns, ch \in ChannelVals, content \in ContentVals : SendMessage(c, ch, content)
    \/ \E c \in Conns, ev \in {"typing", "stopTyping"}, ch \in ChannelVals : Typing(c, ev, ch)
    \/ \E c \in Conns, ev \in {"sendMessage", "typing", "stopTyping"} : BroadcastNoData(c, ev)
    \/ \E c \in Conns : Disconnect(c)
SpecChannels == Init /\ [][NextChannels]_vars

\* ------------------------------------------------------------ properties
BroadcastEvents == {"sendMessage", "typing", "stopTyping"}
Handled(evs) == ~crashed /\ last.ev \in evs /\ last.hasData

\* Some live connection has identified as u (handshake or authenticate).
HasLiveConn(u) == \E d \in Live : u \in identified[d]

\* Every payload the last handler delivered satisfies P.
AllSent(P(_)) == \A d \in Conns : \A i \in 1..Len(sent[d]) : P(sent[d][i])

\* C1: after any sequence of connect, authenticate and disconnect events the
\* registry entry of a user is the connection of the most recent
\* identification as that user, and is absent once that connection has
\* disconnected after it.
C1_RegistryIsLastIdentification == connectedUsers = specRegistry

\* C2: a disconnect of a connection never alters a registry entry that points
\* at another connection (and changes nothing at all when no entry of one of
\* its identities points at it); an identification as u makes the registry
\* point at the identifying connection, so of two connections identifying as
\* the same user the later one is stored.
C2_StaleDisconnectKeepsRegistry ==
    [][ /\ last'.ev = "disconnect" =>
            /\ DOMAIN connectedUsers' \subseteq DOMAIN connectedUsers
            /\ \A u \in DOMAIN connectedUsers : connectedUsers[u] # last'.conn =>
                   u \in DOMAIN connectedUsers' /\ connectedUsers'[u] = connectedUsers[u]
            /\ (\A u \in identified[last'.conn] :
                    MapGet(connectedUsers, u) # Str(last'.conn)) =>
                   connectedUsers' = connectedUsers
        /\ (last'.ev \in {"connection", "authenticate"} /\ last'.userId \in Users) =>
               MapGet(connectedUsers', last'.userId) = Str(last'.conn) ]_vars

\* A stale connection has just disconnected while the registry holds a later,
\* live connection for the user of its handshake.
C2_Witness ==
    /\ last.ev = "disconnect" /\ ~crashed
    /\ Truthy(userId[last.conn])
    /\ userId[last.conn] \in DOMAIN connectedUsers
    /\ connectedUsers[userId[last.conn]] # last.conn
    /\ connectedUsers[userId[last.conn]] \in Live

\* C3: every registry entry refers to a live connection.
C3_RegistryEntriesLive ==
    \A u \in DOMAIN connectedUsers : status[connectedUsers[u]] = "live"

\* C4: a signaling event is received exactly once by the connection the
\* registry holds for its target when it is handled, and by no other.
C4_DeliveredToRegistryEntry ==
    Handled(SignalEvents) =>
        \A d \in Conns :
            IF MapGet(connectedUsers, last.to) = Str(d)
            THEN Len(sent[d]) = 1 /\ sent[d][1].event = OutEvent(last.ev)
            ELSE sent[d] = <<>>

\* C5: what a connection identified as u (by handshake or by authenticate)
\* causes to be sent carries u as from (signaling) and as userId (broadcasts).
C5_OutboundCarriesIdentity ==
    \A u \in Users :
        identified[last.conn] = {u} =>
            /\ Handled(SignalEvents) => AllSent(LAMBDA p : p.from = u)
            /\ Handled(BroadcastEvents) => AllSent(LAMBDA p : p.userId = u)

\* C6: what a connection that never identified causes to be sent carries its
\* connection id as from (signaling) and as userId (broadcasts).
C6_UnidentifiedUsesConnectionId ==
    identified[last.conn] = {} =>
        /\ Handled(SignalEvents) => AllSent(LAMBDA p : p.from = Str(last.conn))
        /\ Handled(BroadcastEvents) => AllSent(LAMBDA p : p.userId = Str(last.conn))

\* C7: a sendMessage with string content is received exactly once, with the
\* same content and channelId, by every member of the channel other than the
\* sender and by nobody else; the sender of a typing or stopTyping receives
\* nothing either.
C7_BroadcastExcludesSender ==
    /\ (Handled({"sendMessage"}) /\ last.content.type = "string") =>
           \A d \in Conns :
               IF d # last.conn /\ d \in Live /\ RoomName(last.channelId) \in rooms[d]
               THEN /\ Len(sent[d]) = 1
                    /\ sent[d][1].event = "newMessage"
                    /\ sent[d][1].content = last.content
                    /\ sent[d][1].channelId = last.channelId
               ELSE sent[d] = <<>>
    /\ Handled({"typing", "stopTyping"}) =>
           \A d \in Conns :
               IF d # last.conn /\ d \in Live /\ RoomName(last.channelId) \in rooms[d]
               THEN Len(sent[d]) = 1 /\ sent[d][1].event = last.ev
               ELSE sent[d] = <<>>

\* The sender is a member, another member received the message and a third
\* live connection, not a member, did not.
C7_Witness ==
    /\ Handled({"sendMessage"}) /\ last.content.type = "string"
    /\ RoomName(last.channelId) \in rooms[last.conn]
    /\ sent[last.conn] = <<>>
    /\ \E d \in Live \ {last.conn} : Len(sent[d]) = 1
    /\ \E d \in Live \ {last.conn} : RoomName(last.channelId) \notin rooms[d]

\* C8: whoever receives a broadcast of a channel has joined the channel and
\* has not left it since.
C8_OnlyJoinedReceive ==
    Handled(BroadcastEvents) =>
        \A d \in Conns : sent[d] # <<>> => RoomName(last.channelId) \in specMembers[d]

\* A broadcast reached a member while another live connection, in another
\* channel only, received nothing.
C8_Witness ==
    /\ Handled(BroadcastEvents)
    /\ \E d \in Live : sent[d] # <<>>
    /\ \E d \in Live \ {last.conn} :
           /\ RoomName(last.channelId) \notin specMembers[d]
           /\ specMembers[d] # {}
           /\ sent[d] = <<>>

\* C9: a signaling event whose target has no live connection delivers
\* nothing, changes neither the registry nor the membership, and does not
\* fail.
C9_UnreachableTargetDropped ==
    [][ (last'.ev \in SignalEvents /\ last'.hasData /\ ~HasLiveConn(last'.to)) =>
            /\ sent' = NoneSent
            /\ ~crashed'
            /\ UNCHANGED <<connectedUsers, rooms, status>> ]_vars

\* The target was dropped although the registry still has an entry for it.
C9_Witness ==
    /\ Handled(SignalEvents)
    /\ ~HasLiveConn(last.to)
    /\ last.to \in DOMAIN connectedUsers
    /\ sent = NoneSent

\* C10: a sendMessage whose content is not a string delivers nothing to
\* anyone, the sender included, changes neither the registry nor the
\* membership, and leaves the router running.
C10_NonStringContentDropped ==
    [][ (last'.ev = "sendMessage" /\ last'.hasData /\ last'.content.type # "string") =>
            /\ sent' = NoneSent
            /\ ~crashed'
            /\ status'[last'.conn] = "live"
            /\ UNCHANGED <<connectedUsers, rooms, status>> ]_vars

\* A non-string message was dropped in a channel that has another member.
C10_Witness ==
    /\ Handled({"sendMessage"}) /\ last.content.type = "number"
    /\ \E d \in Live \ {last.conn} : RoomName(last.channelId) \in rooms[d]
    /\ sent = NoneSent

OutEvents == {OutEvent(ev) : ev \in SignalEvents}
PresenceEvents == {"connection", "authenticate", "disconnect"}
MembershipEvents == {"joinChannel", "leaveChannel"}

\* C11: no inbound event, whatever its payload, brings the router to a
\* crashed state.
C11_NeverCrashes == ~crashed

\* C12: every signaling payload a connection receives is delivered by the
\* step that handles the inbound signaling event it comes from (same kind,
\* same target, the sender's userId as from); no other step delivers one.
C12_DeliveredOnlyWhenHandled ==
    AllSent(LAMBDA p :
        p.event \in OutEvents =>
            /\ Handled(SignalEvents)
            /\ p.event = OutEvent(last.ev)
            /\ p.to = last.to
            /\ p.from = userId[last.conn])

\* A user whose earlier connection is gone has just connected again, another
\* connection is live, and the new connection received nothing.
C12_Witness ==
    /\ last.ev = "connection" /\ ~crashed
    /\ last.userId \in Users
    /\ \E d \in Conns : status[d] = "dead" /\ userId[d] = last.userId
    /\ \E d \in Live : d # last.conn
    /\ sent = NoneSent

\* C13: the relay events change neither the registry nor the membership; the
\* registry changes only in connection, authenticate and disconnect steps,
\* the membership only in joinChannel and leaveChannel steps.
C13_StorelessRelay ==
    [][ /\ (last'.ev \in SignalEvents \cup BroadcastEvents) =>
               UNCHANGED <<connectedUsers, rooms>>
        /\ connectedUsers' # connectedUsers => last'.ev \in PresenceEvents
        /\ rooms' # rooms => last'.ev \in MembershipEvents ]_vars

\* C14: a connection, authenticate or disconnect step delivers nothing.
C14_PresenceChangeEmitsNothing ==
    last.ev \in PresenceEvents => sent = NoneSent

\* A connection took over a registry entry by authenticate while the
\* connection that held it before is still live, and nothing was delivered.
C14_Witness ==
    /\ Handled({"authenticate"})
    /\ last.userId \in Users
    /\ MapGet(connectedUsers, last.userId) = Str(last.conn)
    /\ \E d \in Live \ {last.conn} : last.userId \in identified[d]
    /\ sent = NoneSent

\* C15: joinChannel adds exactly the room of the channel to the rooms of the
\* connection and leaveChannel removes exactly it; hence a join by a member
\* and a leave by a non-member change nothing, and a leave undoes the join of
\* a non-member.
C15_JoinLeaveAlgebra ==
    [][ /\ (last'.ev = "joinChannel" /\ ~crashed') =>
              LET c == last'.conn
                  r == RoomName(last'.channelId) IN
              /\ rooms' = [rooms EXCEPT ![c] = @ \cup {r}]
              /\ r \in rooms[c] => rooms' = rooms
              /\ r \notin rooms[c] => [rooms' EXCEPT ![c] = @ \ {r}] = rooms
        /\ (last'.ev = "leaveChannel" /\ ~crashed') =>
              LET c == last'.conn
                  r == RoomName(last'.channelId) IN
              /\ rooms' = [rooms EXCEPT ![c] = @ \ {r}]
              /\ r \notin rooms[c] => rooms' = rooms ]_vars

\* A connection has left a channel that another live connection is in, and
\* is itself still in another channel.
C15_Witness ==
    /\ Handled({"leaveChannel"})
    /\ RoomName(last.channelId) \notin rooms[last.conn]
    /\ rooms[last.conn] # {}
    /\ \E d \in Live \ {last.conn} : RoomName(last.channelId) \in rooms[d]

\* C16: the disconnect of a connection that never identified leaves the
\* registry unchanged and raises no error.
C16_AnonymousDisconnectNoop ==
    [][ (last'.ev = "disconnect" /\ identified[last'.conn] = {}) =>
            /\ connectedUsers' = connectedUsers
            /\ ~crashed' ]_vars

\* A connection without handshake identity has disconnected while the
\* registry holds entries, none of them its own.
C16_Witness ==
    /\ last.ev = "disconnect" /\ ~crashed
    /\ userId[last.conn] = Undefined
    /\ DOMAIN connectedUsers = Users
    /\ \A u \in Users : connectedUsers[u] # last.conn /\ connectedUsers[u] \in Live

\* C17: when "new connection c2 identifies as u" and "old connection c1 of u
\* disconnects" are handled one after the other, in either order, the
\* registry maps u to c2 afterwards.
C17_ReconnectOrderInsensitive ==
    [][ \A u \in Users :
        /\ ( /\ last.ev \in {"connection", "authenticate"} /\ last.userId = u /\ ~crashed
             /\ last'.ev = "disconnect" /\ last'.conn # last.conn
             /\ u \in identified[last'.conn] )
           => MapGet(connectedUsers', u) = Str(last.conn)
        /\ ( /\ last.ev = "disconnect" /\ userId[last.conn] = u
             /\ last'.ev \in {"connection", "authenticate"} /\ last'.userId = u /\ ~crashed' )
           => MapGet(connectedUsers', u) = Str(last'.conn) ]_vars

\* The old connection of a user is gone and the connection that identified
\* as the user last holds the registry entry.
C17_Witness ==
    /\ last.ev \in {"connection", "authenticate"} /\ ~crashed
    /\ last.userId \in Users
    /\ \E d \in Conns \ {last.conn} : status[d] = "dead" /\ userId[d] = last.userId
    /\ MapGet(connectedUsers, last.userId) = Str(last.conn)

\* C18: authenticate(u2) leaves the registry entry of every other user id as
\* it was, also an entry that points at the authenticating connection.
C18_AuthenticateChangesOneEntry ==
    [][ (last'.ev = "authenticate" /\ last'.hasData /\ ~crashed') =>
            \A u \in Users \ {last'.userId} :
                MapGet(connectedUsers', u) = MapGet(connectedUsers, u) ]_vars

\* After an authenticate the connection is the registered connection of two
\* user ids.
C18_Witness ==
    /\ Handled({"authenticate"})
    /\ \A u \in Users : MapGet(connectedUsers, u) = Str(last.conn)

\* C19: when the later of two live connections identified as the same user
\* disconnects, the registry has no entry for the user afterwards; and a
\* signaling event for a user without registry entry is delivered to nobody.
C19_LaterDisconnectLeavesUserAbsent ==
    [][ \A u \in Users :
        /\ ( /\ last'.ev = "disconnect"
             /\ u \in identified[last'.conn]
             /\ MapGet(connectedUsers, u) = Str(last'.conn)
             /\ \E d \in Live \ {last'.conn} : u \in identified[d] )
           => u \notin DOMAIN connectedUsers'
        /\ ( /\ last'.ev \in SignalEvents /\ last'.hasData /\ last'.to = u
             /\ u \notin DOMAIN connectedUsers )
           => sent' = NoneSent ]_vars
====
